---------------------------- MODULE Spec2Model ----------------------------
(***************************************************************************)
(* NNCF weight quantization of modules/model_quant_nncf.py: the bit        *)
(* packers, the four weights decompressors, the quantization parameter     *)
(* computation of nncf_compress_layer, the traversal apply_nncf_to_module, *)
(* the diffusers quantizer hooks and the NNCFConfig constructor; and the    *)
(* video model loader of modules/video_models/video_load.py.               *)
(*                                                                         *)
(* Tensors are records [shape, data, dtype, device] with row-major data.   *)
(* Integer dtypes hold integers; float dtypes hold exact rationals         *)
(* <<n, d>> in lowest terms (d > 0), so float32 arithmetic is modelled     *)
(* without rounding error.  Weights are drawn on the grid of integer       *)
(* multiples of torch.finfo(float32).eps, which is therefore the           *)
(* rational 1/1: the parameter computation is invariant under scaling of   *)
(* the weights except for its comparison against eps.                      *)
(***************************************************************************)
EXTENDS Integers, Sequences, FiniteSets, TLC

VARIABLES
    pk,        \* pack_weight / unpack exercised on one tensor
    cfgIn,     \* arguments of the last NNCFConfig(...) call
    cfgOut,    \* its outcome: the config object, or the exception raised
    qz,        \* the NNCFQuantizer built around a config
    mods,      \* the module graph: node -> [cls, weight, pre_ops]
    env,       \* shared.opts of the process
    last,      \* the last operation on the graph and its outcome
    nops,      \* quantization operations run on the graph so far
    orig,      \* history: every node's weight as the model was loaded
    hist,      \* history: per node, what its quantizations computed
    loaded_model,  \* video_load.loaded_model
    sd_model,      \* shared.sd_model
    calls,         \* the load_model calls in progress, per calling thread
    ncalls         \* load_model calls started so far

vars == <<pk, cfgIn, cfgOut, qz, mods, env, last, nops, orig, hist, loaded_model, sd_model, calls, ncalls>>
config_vars == <<cfgIn, cfgOut, qz>>
graph_vars == <<mods, env, last, nops, orig, hist>>
load_vars == <<loaded_model, sd_model, calls, ncalls>>

(***************************************************************************)
(* Bounds of the model.                                                    *)
(***************************************************************************)
MaxLen == 4
NumNodes == 3
MaxOps == 2

\* A variable no operation has touched yet.
PkIdle  == [stage |-> "idle"]
CfgIdle == [stage |-> "idle"]
QzIdle  == [stage |-> "idle"]
LastIdle == [op |-> "idle"]

\* video_load is not in use.
LoadIdle ==
    /\ loaded_model = [stage |-> "idle"]
    /\ sd_model = [stage |-> "idle"]
    /\ calls = <<>>
    /\ ncalls = 0

\* No module graph is in use.
GraphUnused ==
    /\ mods = <<>>
    /\ env = [stage |-> "idle"]
    /\ last = LastIdle
    /\ nops = 0
    /\ orig = <<>>
    /\ hist = <<>>

GraphIdle == LoadIdle /\ GraphUnused

(***************************************************************************)
(* Arithmetic helpers.                                                     *)
(***************************************************************************)
Abs(x) == IF x < 0 THEN -x ELSE x

RECURSIVE GCD(_, _)
GCD(a, b) == IF b = 0 THEN a ELSE GCD(b, a % b)

\* The rational n/d in lowest terms with a positive denominator.
Rat(n, d) ==
    LET s == IF d < 0 THEN -1 ELSE 1
        g == GCD(Abs(n), Abs(d))
    IN  <<(s * n) \div g, (s * d) \div g>>

RatMul(a, b) == Rat(a[1] * b[1], a[2] * b[2])
RatDiv(a, b) == Rat(a[1] * b[2], a[2] * b[1])
RatAdd(a, b) == Rat(a[1] * b[2] + b[1] * a[2], a[2] * b[2])
RatSub(a, b) == Rat(a[1] * b[2] - b[1] * a[2], a[2] * b[2])
RatLt(a, b) == a[1] * b[2] < b[1] * a[2]
RatLe(a, b) == a[1] * b[2] <= b[1] * a[2]
RatAbs(a) == <<Abs(a[1]), a[2]>>
RatNeg(a) == <<-a[1], a[2]>>
RatOfInt(i) == <<i, 1>>

\* torch.round: to the nearest integer, halves to the even one.
TorchRound(a) ==
    LET fl == a[1] \div a[2]
        r2 == 2 * (a[1] % a[2])
    IN  IF r2 < a[2] THEN fl
        ELSE IF r2 > a[2] THEN fl + 1
        ELSE IF fl % 2 = 0 THEN fl ELSE fl + 1

ClipInt(v, lo, hi) == IF v < lo THEN lo ELSE IF v > hi THEN hi ELSE v

RECURSIVE Prod(_)
Prod(s) == IF Len(s) = 0 THEN 1 ELSE Head(s) * Prod(Tail(s))

Numel(shape) == Prod(shape)

\* Row-major stride of position k (1-based) of a shape.
Stride(shape, k) == Prod(SubSeq(shape, k + 1, Len(shape)))

\* 0-based coordinate along position k of the element with flat index i (1-based).
CoordAt(i, shape, k) == ((i - 1) \div Stride(shape, k)) % shape[k]

RECURSIVE SumTo(_, _)
SumTo(f, n) == IF n = 0 THEN 0 ELSE f[n] + SumTo(f, n - 1)

\* Flat index, in a tensor of shape bshape broadcast against shape, of the
\* entry that pairs with element i: size-1 dimensions are repeated.
BIndex(i, shape, bshape) ==
    1 + SumTo([k \in 1..Len(shape) |->
                  (IF bshape[k] = 1 THEN 0 ELSE CoordAt(i, shape, k))
                      * Stride(bshape, k)], Len(shape))

(***************************************************************************)
(* Tensors and dtype casts.                                                *)
(***************************************************************************)
Tensor(shape, data, dtype, device) ==
    [shape |-> shape, data |-> data, dtype |-> dtype, device |-> device]

FloatDtypes == {"float32", "float16", "bfloat16"}

is_floating_point(t) == t.dtype \in FloatDtypes

\* Tensor.to(dtype=torch.uint8) / torch.int8 of an integer: two's complement wrap.
ToUint8(v) == v % 256
ToInt8(v)  == ((v + 128) % 256) - 128

CastInt(t, dtype) ==
    [t EXCEPT !.dtype = dtype,
              !.data = [i \in 1..Len(t.data) |->
                           IF dtype = "uint8" THEN ToUint8(t.data[i])
                           ELSE IF dtype = "int8" THEN ToInt8(t.data[i])
                           ELSE t.data[i]]]

\* Outcome of a call that may raise: the exception name or "none", and its value.
Ok(v)      == [raised |-> "none", val |-> v]
Raise(exc) == [raised |-> exc, val |-> "nothing"]

(***************************************************************************)
(* Bit packing: pack_uint4, pack_int4, unpack_uint4, unpack_int4.          *)
(***************************************************************************)
\* One byte from a consecutive pair: bitwise_and(first, 15) | second << 4 on uint8.
\* The two operands share no bit, so the bitwise OR is their sum.
PackByteSwapped(first, second) == (second % 16) + ((first * 16) % 256)

PackByte(first, second) == (first % 16) + ((second * 16) % 256)

pack_uint4(t) ==
    IF t.dtype # "uint8" THEN Raise("RuntimeError")
    \* reshape(-1, 2) needs an even, nonzero number of elements
    ELSE IF Numel(t.shape) % 2 # 0 \/ Numel(t.shape) = 0 THEN Raise("RuntimeError")
    ELSE Ok(Tensor(<<Numel(t.shape) \div 2, 1>>,
                   [i \in 1..(Numel(t.shape) \div 2) |->
                       PackByte(t.data[2 * i - 1], t.data[2 * i])],
                   "uint8", t.device))

pack_int4(t) ==
    IF t.dtype # "int8" THEN Raise("RuntimeError")
    ELSE pack_uint4(CastInt([t EXCEPT !.data = [i \in 1..Len(t.data) |->
                                                   ToInt8(t.data[i] + 8)]],
                            "uint8"))

\* torch.stack((p & 15, p >> 4), dim=-1): every byte becomes a trailing pair.
unpack_uint4(p) ==
    Tensor(p.shape \o <<2>>,
           [i \in 1..(2 * Len(p.data)) |->
               IF i % 2 = 1 THEN p.data[(i + 1) \div 2] % 16
               ELSE p.data[i \div 2] \div 16],
           p.dtype, p.device)

unpack_int4(p) ==
    LET t == unpack_uint4(p)
    IN  [t EXCEPT !.dtype = "int8",
                  !.data = [i \in 1..Len(t.data) |-> ToInt8(ToInt8(t.data[i]) - 8)]]

\* Tensor.reshape to a shape of the same number of elements.
Reshape(t, shape) == [t EXCEPT !.shape = shape]

(***************************************************************************)
(* pack_weight of the four decompressor classes.                           *)
(***************************************************************************)
Variants == {"INT8Asymmetric", "INT8Symmetric", "INT4Asymmetric", "INT4Symmetric"}

AnyOutside(t, lo, hi) == \E i \in 1..Len(t.data) : t.data[i] < lo \/ t.data[i] > hi

INT8Asymmetric_pack_weight(w) ==
    IF is_floating_point(w) THEN Raise("ValueError")
    ELSE IF AnyOutside(w, 0, 255) THEN Raise("ValueError")
    ELSE Ok(CastInt(w, "uint8"))

INT8Symmetric_pack_weight(w) ==
    IF AnyOutside(w, -128, 127) THEN Raise("ValueError")
    ELSE Ok(CastInt(w, "int8"))

INT4Asymmetric_pack_weight(w) ==
    IF AnyOutside(w, 0, 15) THEN Raise("ValueError")
    ELSE pack_uint4(CastInt(w, "uint8"))

\* The same without the range test: values are cast and packed as they come.
INT4Symmetric_pack_weight_unchecked(w) ==
    IF is_floating_point(w) THEN Raise("ValueError")
    ELSE pack_int4(CastInt(w, "int8"))

INT4Symmetric_pack_weight(w) ==
    IF is_floating_point(w) THEN Raise("ValueError")
    ELSE IF AnyOutside(w, -8, 7) THEN Raise("ValueError")
    ELSE pack_int4(CastInt(w, "int8"))

pack_weight(variant, w) ==
    CASE variant = "INT8Asymmetric" -> INT8Asymmetric_pack_weight(w)
      [] variant = "INT8Symmetric"  -> INT8Symmetric_pack_weight(w)
      [] variant = "INT4Asymmetric" -> INT4Asymmetric_pack_weight(w)
      [] variant = "INT4Symmetric"  -> INT4Symmetric_pack_weight(w)

\* The integer tensor a decompressor's forward recovers from packed storage
\* before it dequantizes: the nibbles unpacked and reshaped for 4 bits, the
\* stored bytes themselves for 8 bits.
unpack_weight(variant, p, shape) ==
    CASE variant = "INT4Asymmetric" -> Reshape(unpack_uint4(p), shape)
      [] variant = "INT4Symmetric"  -> Reshape(unpack_int4(p), shape)
      [] OTHER -> p

(***************************************************************************)
(* Float tensors: broadcasting, reductions, casts.                         *)
(***************************************************************************)
\* A shape padded on the left with 1s to rank n (broadcasting aligns right).
PadShape(shape, n) == [k \in 1..n |->
    IF k <= n - Len(shape) THEN 1 ELSE shape[k - (n - Len(shape))]]

MaxInt(a, b) == IF a >= b THEN a ELSE b

\* torch broadcasting of two shapes: dimensions agree or one of them is 1.
CanBroadcast(a, b) ==
    LET n == MaxInt(Len(a), Len(b))
        pa == PadShape(a, n)
        pb == PadShape(b, n)
    IN  \A k \in 1..n : pa[k] = pb[k] \/ pa[k] = 1 \/ pb[k] = 1

BroadcastShape(a, b) ==
    LET n == MaxInt(Len(a), Len(b))
        pa == PadShape(a, n)
        pb == PadShape(b, n)
    IN  [k \in 1..n |-> MaxInt(pa[k], pb[k])]

\* Element i of the broadcast result takes this element of operand t.
Pick(t, i, outshape) == t.data[BIndex(i, outshape, PadShape(t.shape, Len(outshape)))]

\* Tensor.to(dtype=<float dtype>): integers become rationals, floats keep their
\* value (the rounding of the narrower float formats is not modelled).
ToFloat(t, dtype) ==
    [t EXCEPT !.dtype = dtype,
              !.data = [i \in 1..Len(t.data) |->
                           IF is_floating_point(t) THEN t.data[i]
                           ELSE RatOfInt(t.data[i])]]

ToDevice(t, device) == [t EXCEPT !.device = device]

RatMin(S) == CHOOSE x \in S : \A y \in S : RatLe(x, y)
RatMax(S) == CHOOSE x \in S : \A y \in S : RatLe(y, x)

\* Shape left by a reduction over the (0-based) axes with keepdims=True.
KeepShape(shape, axes) ==
    [k \in 1..Len(shape) |-> IF (k - 1) \in axes THEN 1 ELSE shape[k]]

\* The elements of t reduced into entry j of the keepdims result.
Group(t, axes, j) ==
    {t.data[i] : i \in {i \in 1..Len(t.data) :
                           BIndex(i, t.shape, KeepShape(t.shape, axes)) = j}}

\* torch.amin / torch.amax(t, dim=axes, keepdims=True)
amin(t, axes) ==
    Tensor(KeepShape(t.shape, axes),
           [j \in 1..Numel(KeepShape(t.shape, axes)) |-> RatMin(Group(t, axes, j))],
           t.dtype, t.device)

amax(t, axes) ==
    Tensor(KeepShape(t.shape, axes),
           [j \in 1..Numel(KeepShape(t.shape, axes)) |-> RatMax(Group(t, axes, j))],
           t.dtype, t.device)

(***************************************************************************)
(* Layer classes.  A class name is the sequence of its tokens, so that     *)
(* "starts with NNCF" and "contains WeightsDecompressor" are tests on the  *)
(* name as in the code.                                                    *)
(***************************************************************************)
BaseLinear == {<<"Linear">>}
BaseConv == {<<"Conv1d">>, <<"Conv2d">>, <<"Conv3d">>}
BaseConvTranspose == {<<"ConvTranspose1d">>, <<"ConvTranspose2d">>, <<"ConvTranspose3d">>}

WithNNCF(S) == {<<"NNCF">> \o c : c \in S} \cup S

linear_types == WithNNCF(BaseLinear)
conv_types == WithNNCF(BaseConv)
conv_transpose_types == WithNNCF(BaseConvTranspose)
allowed_types == linear_types \cup conv_types \cup conv_transpose_types

StartsWithNNCF(cls) == Len(cls) > 0 /\ cls[1] = "NNCF"

\* None where a tensor may stand.
NoTensor == [isNone |-> TRUE]

\* torch.finfo(torch.float32).eps, the unit of the weight grid.
Eps == <<1, 1>>

\* devices.device and devices.dtype of the running process.
DevicesDevice == "cuda"
DevicesDtype == "float16"

(***************************************************************************)
(* nncf_compress_layer: reduction axes and quantization parameters.        *)
(***************************************************************************)
AllAxesBut(ndim, a) == {i \in 0..(ndim - 1) : i # a}

\* Lines 51-60: the convolution branch assigns first, then the second `if`
\* (not an elif) assigns again on either of its branches.
reduction_axes(cls, ndim) ==
    LET first  == IF cls \in conv_types THEN AllAxesBut(ndim, 0) ELSE {}
        second == IF cls \in conv_transpose_types THEN AllAxesBut(ndim, 1)
                  ELSE {ndim - 1}
    IN  second

\* Lines 51-57 without the test of the mode: only quant_conv decides.
conv_skipped_unless_quant_conv(cls, is_asym_mode, quant_conv) ==
    /\ cls \in conv_types \cup conv_transpose_types
    /\ ~quant_conv

\* The early returns of lines 52-53 and 56-57.
conv_skipped(cls, is_asym_mode, quant_conv) ==
    /\ cls \in conv_types \cup conv_transpose_types
    /\ (is_asym_mode \/ ~quant_conv)

\* torch.where(torch.abs(scale) < eps, eps, scale), one entry.
eps_floor(x) == IF RatLt(RatAbs(x), Eps) THEN Eps ELSE x

\* Line 75 and 78: the asymmetric scale from the per-channel extremes.
asym_scale(min_values, max_values, num_bits) ==
    Tensor(min_values.shape,
           [j \in 1..Len(min_values.data) |->
               eps_floor(RatDiv(RatSub(max_values.data[j], min_values.data[j]),
                                RatOfInt((2 ^ num_bits - 1) - 0 + 1 - 1)))],
           "float32", min_values.device)

\* Line 79 alone: level_low - round(min / scale), cast to int32, not clipped.
asym_zero_point_unclipped(min_values, scale, num_bits) ==
    Tensor(min_values.shape,
           [j \in 1..Len(min_values.data) |->
               0 - TorchRound(RatDiv(min_values.data[j], scale.data[j]))],
           "int32", min_values.device)

\* Lines 79-80: the zero point, clipped to [level_low, level_high].
asym_zero_point(min_values, scale, num_bits) ==
    Tensor(min_values.shape,
           [j \in 1..Len(min_values.data) |->
               ClipInt(0 - TorchRound(RatDiv(min_values.data[j], scale.data[j])),
                       0, 2 ^ num_bits - 1)],
           "int32", min_values.device)

asym_with_scale(min_values, scale, num_bits) ==
    [scale |-> scale, zero_point |-> asym_zero_point(min_values, scale, num_bits)]

asym_from_extremes(min_values, max_values, num_bits) ==
    asym_with_scale(min_values, asym_scale(min_values, max_values, num_bits), num_bits)

\* Lines 69-80: [scale, zero_point] of asymmetric mode for weight w (float32).
asym_params(w, axes, num_bits) ==
    asym_from_extremes(amin(w, axes), amax(w, axes), num_bits)

\* Lines 87-91: the symmetric scale from |min| and max of each channel.
sym_scale(mins, w_max, num_bits) ==
    Tensor(mins.shape,
           [j \in 1..Len(mins.data) |->
               eps_floor(RatDiv(IF RatLe(w_max.data[j], RatAbs(mins.data[j]))
                                THEN RatAbs(mins.data[j])
                                ELSE RatNeg(w_max.data[j]),
                                RatOfInt(2 ^ (num_bits - 1))))],
           "float32", mins.device)

\* Lines 82-92: the scale of symmetric mode; zero_point = None.
sym_params(w, axes, num_bits) ==
    [scale |-> sym_scale(amin(w, axes), amax(w, axes), num_bits),
     zero_point |-> NoTensor]

\* Lines 98-102 for one element: round(w / scale [+ zero_point]).
code_of(w, i, scale, has_zp, zero_point) ==
    TorchRound(IF has_zp
               THEN RatAdd(RatDiv(w.data[i], Pick(scale, i, w.shape)),
                           RatOfInt(Pick(zero_point, i, w.shape)))
               ELSE RatDiv(w.data[i], Pick(scale, i, w.shape)))

\* Lines 94-103: the integer codes of the weight, before packing.
quantize(w, scale, has_zp, zero_point, is_asym_mode, num_bits) ==
    Tensor(w.shape,
           [i \in 1..Len(w.data) |->
               ClipInt(code_of(w, i, scale, has_zp, zero_point),
                       IF is_asym_mode THEN 0 ELSE -(2 ^ (num_bits - 1)),
                       IF is_asym_mode THEN 2 ^ num_bits - 1
                       ELSE 2 ^ (num_bits - 1) - 1)],
           IF is_asym_mode THEN "uint8" ELSE "int8", w.device)

(***************************************************************************)
(* The decompressor classes: constructors and forward.                     *)
(***************************************************************************)
VariantOf(num_bits, is_asym_mode) ==
    IF num_bits = 4
    THEN (IF is_asym_mode THEN "INT4Asymmetric" ELSE "INT4Symmetric")
    ELSE (IF is_asym_mode THEN "INT8Asymmetric" ELSE "INT8Symmetric")

DecompressorClass(variant) == <<variant, "WeightsDecompressor">>

\* The object the constructors build once the zero point is packed.
decompressor_object(variant, scale, zp, zero_point_shape, compressed_weight_shape, result_shape, result_dtype) ==
    IF zp.raised # "none" THEN Raise(zp.raised)
    ELSE Ok([cls |-> DecompressorClass(variant),
             variant |-> variant,
             scale |-> scale,
             zero_point |-> zp.val,
             zero_point_shape |->
                 IF variant = "INT4Asymmetric" THEN zero_point_shape ELSE <<>>,
             compressed_weight_shape |->
                 IF variant \in {"INT4Asymmetric", "INT4Symmetric"}
                 THEN compressed_weight_shape ELSE <<>>,
             result_shape |->
                 IF variant \in {"INT4Asymmetric", "INT4Symmetric"}
                 THEN result_shape ELSE <<>>,
             result_dtype |-> result_dtype])

\* __init__ of the four classes; the asymmetric ones pack the zero point.
new_decompressor(variant, scale, zero_point, compressed_weight_shape, result_shape, result_dtype) ==
    decompressor_object(variant, scale,
                        IF variant \in {"INT8Asymmetric", "INT4Asymmetric"}
                        THEN pack_weight(variant, zero_point)
                        ELSE Ok(NoTensor),
                        IF variant = "INT4Asymmetric" THEN zero_point.shape ELSE <<>>,
                        compressed_weight_shape, result_shape, result_dtype)

\* (a - z) * scale over the broadcast shape out.
sub_mul(a, z, scale, out) ==
    Tensor(out,
           [i \in 1..Numel(out) |->
               RatMul(RatSub(Pick(a, i, out), Pick(z, i, out)), Pick(scale, i, out))],
           scale.dtype, a.device)

sub_mul_broadcast(a, z, scale) ==
    IF ~CanBroadcast(a.shape, z.shape) THEN Raise("RuntimeError")
    ELSE IF ~CanBroadcast(BroadcastShape(a.shape, z.shape), scale.shape)
    THEN Raise("RuntimeError")
    ELSE Ok(sub_mul(a, z, scale,
                    BroadcastShape(BroadcastShape(a.shape, z.shape), scale.shape)))

\* decompress_asymmetric: (input - zero_point) * scale, broadcast.
decompress_asymmetric(input, scale, zero_point) ==
    sub_mul_broadcast(ToFloat(input, scale.dtype), ToFloat(zero_point, scale.dtype),
                      scale)

\* a * scale over the broadcast shape out.
mul(a, scale, out) ==
    Tensor(out,
           [i \in 1..Numel(out) |-> RatMul(Pick(a, i, out), Pick(scale, i, out))],
           scale.dtype, a.device)

mul_broadcast(a, scale) ==
    IF ~CanBroadcast(a.shape, scale.shape) THEN Raise("RuntimeError")
    ELSE Ok(mul(a, scale, BroadcastShape(a.shape, scale.shape)))

\* decompress_symmetric: input * scale, broadcast.
decompress_symmetric(input, scale) == mul_broadcast(ToFloat(input, scale.dtype), scale)

\* Tensor.reshape: an error unless the element counts agree.
TryReshape(t, shape) ==
    IF Numel(t.shape) # Numel(shape) THEN Raise("RuntimeError")
    ELSE Ok(Reshape(t, shape))

\* The bitwise operators of unpack_uint4 are not defined on float tensors.
TryUnpack(variant, p) ==
    IF is_floating_point(p) THEN Raise("RuntimeError")
    ELSE Ok(IF variant = "INT4Symmetric" THEN unpack_int4(p) ELSE unpack_uint4(p))

\* The next statement of a forward body runs only if none before it raised.
ThenReshape(r, shape) == IF r.raised # "none" THEN r ELSE TryReshape(r.val, shape)

ThenDecompressAsymmetric(r, z, scale) ==
    IF r.raised # "none" THEN r
    ELSE IF z.raised # "none" THEN z
    ELSE decompress_asymmetric(r.val, scale, z.val)

ThenDecompressSymmetric(r, scale) ==
    IF r.raised # "none" THEN r ELSE decompress_symmetric(r.val, scale)

\* forward(x) up to `result`: the tensor the call computes from x.weight.
decompress(d, weight) ==
    CASE d.variant = "INT8Asymmetric" ->
            decompress_asymmetric(weight, d.scale, d.zero_point)
      [] d.variant = "INT8Symmetric" ->
            decompress_symmetric(weight, d.scale)
      [] d.variant = "INT4Asymmetric" ->
            ThenReshape(
                ThenDecompressAsymmetric(
                    ThenReshape(TryUnpack(d.variant, weight), d.compressed_weight_shape),
                    TryReshape(unpack_uint4(d.zero_point), d.zero_point_shape),
                    d.scale),
                d.result_shape)
      [] d.variant = "INT4Symmetric" ->
            ThenReshape(
                ThenDecompressSymmetric(
                    ThenReshape(TryUnpack(d.variant, weight), d.compressed_weight_shape),
                    d.scale),
                d.result_shape)

\* result.to(dtype=self.result_dtype); x.weight = result
write_back(d, x, r) ==
    IF r.raised # "none" THEN [raised |-> r.raised, x |-> x]
    ELSE [raised |-> "none", x |-> [x EXCEPT !.weight = ToFloat(r.val, d.result_dtype)]]

\* forward(x, return_decompressed_only=False).  x is the object the hook is
\* called with; the outcome is x after the call.
forward(d, x) == write_back(d, x, decompress(d, x.weight))

(***************************************************************************)
(* nncf_compress_layer.                                                    *)
(*                                                                         *)
(* A module is [cls, weight, pre_ops]; its weight is [kind |-> "absent"]   *)
(* (no such attribute), [kind |-> "None"] or [kind |-> "tensor", t,         *)
(* requires_grad].  pre_ops is the sequence of registered pre-forward      *)
(* operations in registration order.  The outcome carries the layer as the *)
(* call left it, also when it raised, and the parameters it computed.      *)
(***************************************************************************)
WeightAbsent == [kind |-> "absent"]
WeightNone   == [kind |-> "None"]
WeightOf(t, requires_grad) == [kind |-> "tensor", t |-> t, requires_grad |-> requires_grad]

NoParams == [computed |-> FALSE]

Outcome(raised, layer, params) == [raised |-> raised, layer |-> layer, params |-> params]

\* Lines 134-141: pack, move to return_device, register, assign.  Only the
\* NNCF module classes have register_pre_forward_operation.
compress_finish(moved, return_device, params, decompressor, packed) ==
    IF decompressor.raised # "none" THEN Outcome(decompressor.raised, moved, params)
    ELSE IF packed.raised # "none" THEN Outcome(packed.raised, moved, params)
    ELSE IF ~StartsWithNNCF(moved.cls) THEN Outcome("AttributeError", moved, params)
    ELSE Outcome("none",
                 [moved EXCEPT
                     !.pre_ops = Append(moved.pre_ops, decompressor.val),
                     !.weight = WeightOf(ToDevice(packed.val, return_device), FALSE)],
                 params)

\* Lines 105-134: the decompressor of the variant, and the packed codes.
compress_attach(moved, return_device, params, variant, torch_dtype, compressed_weight) ==
    compress_finish(moved, return_device, params,
                    new_decompressor(variant, params.scale, params.zero_point,
                                     compressed_weight.shape, moved.weight.t.shape,
                                     torch_dtype),
                    pack_weight(variant, compressed_weight))

\* Lines 94-103 on the parameters p of lines 68-92.
compress_codes(moved, return_device, p, num_bits, is_asym_mode, torch_dtype) ==
    compress_attach(moved, return_device,
                    [computed |-> TRUE, scale |-> p.scale, zero_point |-> p.zero_point,
                     is_asym_mode |-> is_asym_mode, num_bits |-> num_bits],
                    VariantOf(num_bits, is_asym_mode), torch_dtype,
                    quantize(moved.weight.t, p.scale, is_asym_mode, p.zero_point,
                             is_asym_mode, num_bits))

\* Lines 68-92 on the layer as line 66 left it.
compress_moved(moved, axes, return_device, num_bits, is_asym_mode, torch_dtype) ==
    compress_codes(moved, return_device,
                   IF is_asym_mode THEN asym_params(moved.weight.t, axes, num_bits)
                   ELSE sym_params(moved.weight.t, axes, num_bits),
                   num_bits, is_asym_mode, torch_dtype)

nncf_compress_layer(layer, num_bits, is_asym_mode, torch_dtype, quant_conv, offload_mode) ==
    IF layer.cls \notin allowed_types THEN Outcome("none", layer, NoParams)
    ELSE IF conv_skipped(layer.cls, is_asym_mode, quant_conv)
    THEN Outcome("none", layer, NoParams)
    ELSE IF layer.weight.kind # "tensor"                    \* layer.weight.ndim
    THEN Outcome("AttributeError", layer, NoParams)
    ELSE compress_moved(
             \* line 66
             [layer EXCEPT !.weight.t =
                 ToDevice(ToFloat(layer.weight.t, "float32"), DevicesDevice)],
             reduction_axes(layer.cls, Len(layer.weight.t.shape)),
             \* lines 62-65
             IF offload_mode # "none" THEN layer.weight.t.device ELSE DevicesDevice,
             num_bits, is_asym_mode, torch_dtype)

(***************************************************************************)
(* The module graph and apply_nncf_to_module.                              *)
(*                                                                         *)
(* Nodes are 0..n-1 with root 0; node 1 is the root's child and every      *)
(* later node is a child of node 1, in index order (named_children order). *)
(* The pre_ops / post_ops containers NNCF modules carry, and the           *)
(* decompressors in them, are children too as far as the traversal goes,   *)
(* but none has a class name starting with NNCF: the traversal passes      *)
(* through them without effect.                                            *)
(***************************************************************************)
Nodes(ms) == DOMAIN ms

Parent(n) == IF n <= 1 THEN 0 ELSE 1

\* The children of node in ms, in order (nodes are numbered from 0).
ChildrenOf(ms, node) ==
    LET kids == {c \in Nodes(ms) : c # 0 /\ Parent(c) = node}
        ith[i \in 1..Cardinality(kids)] ==
            CHOOSE c \in kids : Cardinality({k \in kids : k < c}) = i - 1
    IN  ith

NodeName(n) ==
    CASE n = 0 -> "model"
      [] n = 1 -> "blk"
      [] n = 2 -> "proj"
      [] n = 3 -> "norm"
      [] OTHER -> "attn"

\* The dotted path of a node below the root, as its components.
RECURSIVE PathOf(_)
PathOf(n) == IF n = 0 THEN <<>> ELSE PathOf(Parent(n)) \o <<NodeName(n)>>

PassState(raised, ms, hs) == [raised |-> raised, mods |-> ms, hist |-> hs]

\* History kept for a node: how many quantizations completed on it, the
\* weight and decompressor its first one produced, the parameters of its
\* latest one.
NoHist == [nq |-> 0, first |-> NoParams, params |-> NoParams]

Record(h, out) ==
    [nq |-> IF out.raised = "none" /\ out.params.computed THEN h.nq + 1 ELSE h.nq,
     first |-> IF out.raised = "none" /\ out.params.computed /\ h.nq = 0
               THEN [computed |-> TRUE, weight |-> out.layer.weight.t,
                     d |-> out.layer.pre_ops[Len(out.layer.pre_ops)]]
               ELSE h.first,
     params |-> IF out.params.computed THEN out.params ELSE h.params]

\* The loop body of apply_nncf_to_module for one child; StepChildren runs it
\* over the children in order and stops where a call raised.
RECURSIVE apply_nncf_to_module(_, _, _, _, _, _)
RECURSIVE StepChildren(_, _, _, _, _, _, _)

\* Line 150-151: the call, for the children the condition selects.
compress_child(module, num_bits, is_asym_mode, quant_conv, offload_mode) ==
    IF /\ StartsWithNNCF(module.cls)
       /\ module.weight.kind = "tensor"                \* hasattr and not None
    THEN nncf_compress_layer(module, num_bits, is_asym_mode, DevicesDtype,
                             quant_conv, offload_mode)
    ELSE Outcome("none", module, NoParams)

\* The pass after the call on child returned or raised out.
after_child(st, child, out) ==
    PassState(out.raised,
              [st.mods EXCEPT ![child] = out.layer],
              [st.hist EXCEPT ![child] = Record(st.hist[child], out)])

\* Line 152: the recursion into the child, unless line 151 raised.
descend(st, child, num_bits, is_asym_mode, quant_conv, offload_mode) ==
    IF st.raised # "none" THEN st
    ELSE apply_nncf_to_module(st, child, num_bits, is_asym_mode, quant_conv,
                              offload_mode)

apply_child(st, child, num_bits, is_asym_mode, quant_conv, offload_mode) ==
    descend(after_child(st, child,
                        compress_child(st.mods[child], num_bits, is_asym_mode,
                                       quant_conv, offload_mode)),
            child, num_bits, is_asym_mode, quant_conv, offload_mode)

StepChildren(st, kids, i, num_bits, is_asym_mode, quant_conv, offload_mode) ==
    IF i > Len(kids) \/ st.raised # "none" THEN st
    ELSE StepChildren(apply_child(st, kids[i], num_bits, is_asym_mode, quant_conv,
                                  offload_mode),
                      kids, i + 1, num_bits, is_asym_mode, quant_conv, offload_mode)

apply_nncf_to_module(st, model, num_bits, is_asym_mode, quant_conv, offload_mode) ==
    IF Len(ChildrenOf(st.mods, model)) = 0 THEN st
    ELSE StepChildren(st, ChildrenOf(st.mods, model), 1, num_bits, is_asym_mode,
                      quant_conv, offload_mode)

(***************************************************************************)
(* NNCFQuantizer: check_if_quantized_param and create_quantized_param.     *)
(***************************************************************************)
Range(f) == {f[i] : i \in DOMAIN f}

\* param_name is the module's path followed by the tensor name.
check_if_quantized_param(ms, node, tensor_name) ==
    StartsWithNNCF(ms[node].cls) /\ tensor_name = "weight"

\* Line 210: the name as a whole is no entry, and no entry is a component.
not_denied(param_name, modules_to_not_convert) ==
    /\ param_name \notin Range(modules_to_not_convert)
    /\ ~\E k \in DOMAIN modules_to_not_convert :
          /\ Len(modules_to_not_convert[k]) = 1
          /\ modules_to_not_convert[k][1] \in Range(param_name)

create_quantized_param(quantizer, layer, param_value, param_name, target_device, offload_mode) ==
    LET loaded == [layer EXCEPT
                      !.weight = WeightOf(ToDevice(param_value, target_device), TRUE)]
    IN  IF not_denied(param_name, quantizer.modules_to_not_convert)
        THEN nncf_compress_layer(loaded, quantizer.quantization_config.num_bits,
                                 quantizer.quantization_config.is_asym_mode,
                                 quantizer.torch_dtype, FALSE, offload_mode)
        ELSE Outcome("none", loaded, NoParams)

(***************************************************************************)
(* A layer's forward: the registered pre-forward operations run in order   *)
(* on a proxy of the layer that starts with the layer's weight; the        *)
(* layer's computation then reads the proxy's weight.  The layer itself    *)
(* keeps its packed weight.                                                *)
(***************************************************************************)
RECURSIVE run_pre_ops(_, _, _)
run_pre_ops(ops, i, st) ==
    IF i > Len(ops) \/ st.raised # "none" THEN st
    ELSE run_pre_ops(ops, i + 1, forward(ops[i], st.x))

layer_forward(layer) ==
    run_pre_ops(layer.pre_ops, 1, [raised |-> "none", x |-> [weight |-> layer.weight.t]])

(***************************************************************************)
(* NNCFConfig and the quantizer's deny-list set-up.                        *)
(*                                                                         *)
(* A module or parameter name is the sequence of its dot-separated         *)
(* components; a deny-list entry is such a sequence too.  The entry None   *)
(* (a deny-list that was None, wrapped in a list) is NoneEntry, which      *)
(* equals no name and no component.                                        *)
(***************************************************************************)
NoneEntry == <<>>

NoneValue   == [isNone |-> TRUE]
ListOf(l)   == [isNone |-> FALSE, list |-> l]

\* str.lower() on the strings the model hands to the constructor.
Lower(s) ==
    CASE s = "INT8"     -> "int8"
      [] s = "Int4_Sym" -> "int4_sym"
      [] s = "UINT4"    -> "uint4"
      [] s = "INT8_ASYM" -> "int8_asym"
      [] OTHER          -> s

weights_dtype_dict ==
    [k \in {"int8_asym", "int8_sym", "int4_asym", "int4_sym", "int8", "int4"} |->
        CASE k = "int8_asym" -> "uint8"
          [] k = "int8_sym"  -> "int8"
          [] k = "int4_asym" -> "uint4"
          [] k = "int4_sym"  -> "int4"
          [] k = "int8"      -> "uint8"
          [] k = "int4"      -> "uint4"]

accepted_weights == {"int8", "uint8", "int4", "uint4"}

\* NNCFConfig.post_init
post_init(weights_dtype) ==
    IF weights_dtype \notin accepted_weights THEN "ValueError" ELSE "none"

\* The constructor with the lookup keyed by the string as given.
NNCFConfig_init_case_sensitive(weights_dtype, modules_to_not_convert) ==
    IF weights_dtype \notin DOMAIN weights_dtype_dict THEN Raise("KeyError")
    ELSE LET wd == weights_dtype_dict[weights_dtype]
         IN  IF post_init(wd) # "none" THEN Raise(post_init(wd))
             ELSE Ok([quant_method |-> "nncf",
                      weights_dtype |-> wd,
                      modules_to_not_convert |-> modules_to_not_convert,
                      num_bits |-> IF wd \in {"int8", "uint8"} THEN 8 ELSE 4,
                      is_asym_mode |-> wd \in {"uint8", "uint4"},
                      is_integer |-> TRUE,
                      group_size |-> -1])

\* NNCFConfig.__init__
NNCFConfig_init(weights_dtype, modules_to_not_convert) ==
    IF Lower(weights_dtype) \notin DOMAIN weights_dtype_dict THEN Raise("KeyError")
    ELSE LET wd == weights_dtype_dict[Lower(weights_dtype)]
         IN  IF post_init(wd) # "none" THEN Raise(post_init(wd))
             ELSE Ok([quant_method |-> "nncf",
                      weights_dtype |-> wd,
                      modules_to_not_convert |-> modules_to_not_convert,
                      num_bits |-> IF wd \in {"int8", "uint8"} THEN 8 ELSE 4,
                      is_asym_mode |-> wd \in {"uint8", "uint4"},
                      is_integer |-> TRUE,
                      group_size |-> -1])

\* NNCFQuantizer._process_model_before_weight_loading, the deny-list part:
\* the quantizer's list is the config's own list object when that is a list,
\* so extending it extends the config's list as well.
process_deny_list(config, keep_in_fp32_modules) ==
    LET wrapped == IF config.modules_to_not_convert.isNone
                   THEN <<NoneEntry>>
                   ELSE config.modules_to_not_convert.list
        extended == IF keep_in_fp32_modules.isNone THEN wrapped
                    ELSE wrapped \o keep_in_fp32_modules.list
    IN  [stage |-> "ready",
         torch_dtype |-> DevicesDtype,      \* update_torch_dtype(None)
         quantization_config |->
             IF config.modules_to_not_convert.isNone THEN config
             ELSE [config EXCEPT !.modules_to_not_convert = ListOf(extended)],
         modules_to_not_convert |-> extended]

WeightsDtypeInputs ==
    {"int8", "uint8", "int4", "uint4", "int8_sym", "int8_asym", "int4_sym",
     "int4_asym", "INT8", "Int4_Sym", "UINT4", "INT8_ASYM", "fp8", "int2", ""}

DenyListInputs ==
    {NoneValue, ListOf(<<>>), ListOf(<< <<"proj">> >>),
     ListOf(<< <<"blk", "proj">> >>)}

KeepFp32Inputs == {NoneValue, ListOf(<<>>), ListOf(<< <<"norm">> >>)}

InitConfig ==
    /\ pk = PkIdle
    /\ cfgIn = CfgIdle
    /\ cfgOut = CfgIdle
    /\ qz = QzIdle
    /\ GraphIdle

NewConfig ==
    \E s \in WeightsDtypeInputs : \E m \in DenyListInputs :
        /\ cfgIn' = [stage |-> "called", weights_dtype |-> s,
                     modules_to_not_convert |-> m]
        /\ cfgOut' = [stage |-> "returned"] @@ NNCFConfig_init(s, m)
        /\ qz' = QzIdle
        /\ UNCHANGED <<pk, graph_vars, load_vars>>

ProcessBeforeWeightLoading ==
    \E keep \in KeepFp32Inputs :
        /\ cfgOut.stage = "returned"
        /\ cfgOut.raised = "none"
        /\ qz.stage = "idle"
        /\ qz' = process_deny_list(cfgOut.val, keep)
        /\ cfgOut' = [cfgOut EXCEPT !.val = qz'.quantization_config]
        /\ UNCHANGED <<pk, cfgIn, graph_vars, load_vars>>

NextConfig == NewConfig \/ ProcessBeforeWeightLoading

SpecConfig == InitConfig /\ [][NextConfig]_vars

(***************************************************************************)
(* The module graph under quantization and inference.                      *)
(***************************************************************************)
Floats(ints) == [i \in 1..Len(ints) |-> RatOfInt(ints[i])]

LoadedWeight(shape, ints) == WeightOf(Tensor(shape, Floats(ints), "float16", "cpu"), TRUE)

Module(cls, weight) == [cls |-> cls, weight |-> weight, pre_ops |-> <<>>]

Container == Module(<<"Sequential">>, WeightAbsent)

\* The kinds of module a loaded graph is made of.
GraphKinds ==
    {Container,
     Module(<<"NNCF", "Linear">>, WeightNone),
     Module(<<"NNCF", "Linear">>, LoadedWeight(<<2, 2>>, <<-300, 100, 20, 20>>)),
     Module(<<"Linear">>, LoadedWeight(<<2, 2>>, <<-300, 100, 20, 20>>)),
     Module(<<"NNCF", "Conv1d">>, LoadedWeight(<<1, 2, 2>>, <<-300, 100, 20, 20>>)),
     Module(<<"NNCF", "ConvTranspose1d">>, LoadedWeight(<<1, 2, 2>>, <<-300, 100, 20, 20>>))}

GraphDenyLists ==
    {ListOf(<<>>), ListOf(<< <<"proj">> >>), ListOf(<< <<"blk", "proj">> >>)}

QuantizerFor(weights_dtype, deny) ==
    process_deny_list(NNCFConfig_init(weights_dtype, deny).val, ListOf(<<>>))

GraphStart(ms) ==
    /\ LoadIdle
    /\ mods = ms
    /\ orig = [n \in DOMAIN ms |-> ms[n].weight]
    /\ hist = [n \in DOMAIN ms |-> NoHist]
    /\ last = LastIdle
    /\ nops = 0
    /\ pk = PkIdle
    /\ cfgIn = CfgIdle
    /\ cfgOut = CfgIdle

Init ==
    /\ \E ms \in [0..(NumNodes - 1) -> GraphKinds] : ms[0] = Container /\ GraphStart(ms)
    /\ \E wd \in {"int8", "int8_sym", "int4", "int4_sym"} : \E deny \in GraphDenyLists :
          qz = QuantizerFor(wd, deny)
    /\ \E off \in {"none", "balanced"} : \E qc \in BOOLEAN :
          env = [diffusers_offload_mode |-> off, quant_conv |-> qc]

\* apply_nncf_to_module(model, ...) from the root.
ApplyPass ==
    /\ nops < MaxOps
    /\ \E st \in {apply_nncf_to_module(PassState("none", mods, hist), 0,
                                        qz.quantization_config.num_bits,
                                        qz.quantization_config.is_asym_mode,
                                        env.quant_conv, env.diffusers_offload_mode)} :
          /\ mods' = st.mods
          /\ hist' = st.hist
          /\ last' = [op |-> "apply", raised |-> st.raised]
    /\ nops' = nops + 1
    /\ UNCHANGED <<pk, config_vars, env, orig, load_vars>>

\* The loader hands one checkpoint tensor to the quantizer: it asks
\* check_if_quantized_param and, on True, calls create_quantized_param.
CreateQuantizedParam(n) ==
    /\ nops < MaxOps
    /\ n # 0
    /\ orig[n].kind = "tensor"
    /\ check_if_quantized_param(mods, n, "weight")
    /\ \E target_device \in {"cpu", DevicesDevice} :
       \E out \in {create_quantized_param(qz, mods[n], orig[n].t,
                                          PathOf(n) \o <<"weight">>, target_device,
                                          env.diffusers_offload_mode)} :
          /\ mods' = [mods EXCEPT ![n] = out.layer]
          /\ hist' = [hist EXCEPT ![n] = Record(hist[n], out)]
          /\ last' = [op |-> "create", node |-> n, raised |-> out.raised]
    /\ nops' = nops + 1
    /\ UNCHANGED <<pk, config_vars, env, orig, load_vars>>

\* nncf_compress_layer called on one layer of the graph.
CompressLayer(n) ==
    /\ nops < MaxOps
    /\ n # 0
    /\ \E out \in {nncf_compress_layer(mods[n], qz.quantization_config.num_bits,
                                        qz.quantization_config.is_asym_mode,
                                        DevicesDtype, env.quant_conv,
                                        env.diffusers_offload_mode)} :
          /\ mods' = [mods EXCEPT ![n] = out.layer]
          /\ hist' = [hist EXCEPT ![n] = Record(hist[n], out)]
          /\ last' = [op |-> "compress", node |-> n, raised |-> out.raised]
    /\ nops' = nops + 1
    /\ UNCHANGED <<pk, config_vars, env, orig, load_vars>>

\* One forward call of a layer that holds a weight.
LayerForward(n) ==
    /\ n # 0
    /\ mods[n].weight.kind = "tensor"
    /\ \E st \in {layer_forward(mods[n])} :
          last' = [op |-> "forward", node |-> n, raised |-> st.raised,
                   weight |-> st.x.weight]
    /\ UNCHANGED <<pk, config_vars, mods, env, nops, orig, hist, load_vars>>

Next ==
    \/ ApplyPass
    \/ \E n \in Nodes(mods) : CreateQuantizedParam(n)
    \/ \E n \in Nodes(mods) : CompressLayer(n)
    \/ \E n \in Nodes(mods) : LayerForward(n)

Spec == Init /\ [][Next]_vars

(***************************************************************************)
(* One layer with every weight of a small grid, quantized by the pass and  *)
(* run forward: the arithmetic of the parameters and of the round trip.    *)
(***************************************************************************)
WeightVals == {-300, -20, 0, 3, 20, 300}
ConvWeightVals == {-300, 3, 20}

QuantLayers ==
    {Module(<<"NNCF", "Linear">>, LoadedWeight(<<2, 2>>, d)) : d \in [1..4 -> WeightVals]}
    \cup {Module(<<"NNCF", "Linear">>, LoadedWeight(<<1, 2>>, d)) : d \in [1..2 -> WeightVals]}
    \cup {Module(c, LoadedWeight(<<1, 2, 2>>, d)) :
             c \in {<<"NNCF", "Conv1d">>, <<"NNCF", "ConvTranspose1d">>},
             d \in [1..4 -> ConvWeightVals]}

InitQuant ==
    /\ \E layer \in QuantLayers : GraphStart([n \in 0..1 |-> IF n = 0 THEN Container ELSE layer])
    /\ \E wd \in {"int8", "int8_sym", "int4", "int4_sym"} :
          qz = QuantizerFor(wd, ListOf(<<>>))
    /\ env = [diffusers_offload_mode |-> "none", quant_conv |-> TRUE]

NextQuant ==
    \/ ApplyPass
    \/ \E n \in Nodes(mods) : LayerForward(n)

SpecQuant == InitQuant /\ [][NextQuant]_vars

(***************************************************************************)
(* Packing exercised on its own: an integer tensor is handed to one        *)
(* variant's pack_weight, and a packed result is unpacked again.           *)
(***************************************************************************)
\* Values around every range limit of the variant's bit width.
PackValues(variant) ==
    IF variant \in {"INT4Asymmetric", "INT4Symmetric"}
    THEN {-9, -8, 0, 7, 8, 15, 16}
    ELSE {-129, -128, 0, 127, 255, 256}

SeqsUpTo(S, n) == UNION {[1..k -> S] : k \in 0..n}

InitPack ==
    /\ \E variant \in Variants : \E data \in SeqsUpTo(PackValues(variant), MaxLen) :
          pk = [stage |-> "input", variant |-> variant,
                input |-> Tensor(<<Len(data)>>, data, "int32", "cpu")]
    /\ cfgIn = CfgIdle
    /\ cfgOut = CfgIdle
    /\ qz = QzIdle
    /\ GraphIdle

PackWeight ==
    /\ pk.stage = "input"
    /\ pk' = [stage |-> "packed", variant |-> pk.variant, input |-> pk.input,
              result |-> pack_weight(pk.variant, pk.input)]
    /\ UNCHANGED <<config_vars, graph_vars, load_vars>>

Unpack ==
    /\ pk.stage = "packed"
    /\ pk.result.raised = "none"
    /\ pk' = [stage |-> "unpacked", variant |-> pk.variant, input |-> pk.input,
              result |-> pk.result,
              output |-> unpack_weight(pk.variant, pk.result.val, pk.input.shape)]
    /\ UNCHANGED <<config_vars, graph_vars, load_vars>>

NextPack == PackWeight \/ Unpack

SpecPack == InitPack /\ [][NextPack]_vars

(***************************************************************************)
(* Graphs with layers the quantization leaves alone: classes outside       *)
(* allowed_types that hold a weight, next to convolutions and a linear     *)
(* layer.                                                                  *)
(***************************************************************************)
FrameKinds ==
    {Module(<<"NNCF", "Embedding">>, LoadedWeight(<<2, 2>>, <<-300, 100, 20, 20>>)),
     Module(<<"LayerNorm">>, LoadedWeight(<<1, 2>>, <<20, 20>>)),
     Module(<<"NNCF", "Linear">>, LoadedWeight(<<2, 2>>, <<-300, 100, 20, 20>>)),
     Module(<<"NNCF", "Conv1d">>, LoadedWeight(<<1, 2, 2>>, <<-300, 100, 20, 20>>)),
     Module(<<"NNCF", "ConvTranspose1d">>, LoadedWeight(<<1, 2, 2>>, <<-300, 100, 20, 20>>))}

InitFrame ==
    /\ \E ms \in [0..(NumNodes - 1) -> FrameKinds \cup {Container}] :
          /\ ms[0] = Container
          /\ \A n \in 1..(NumNodes - 1) : ms[n] \in FrameKinds
          /\ GraphStart(ms)
    /\ \E wd \in {"int8", "int8_sym", "int4", "int4_sym"} :
          qz = QuantizerFor(wd, ListOf(<<>>))
    /\ \E off \in {"none", "balanced"} : \E qc \in BOOLEAN :
          env = [diffusers_offload_mode |-> off, quant_conv |-> qc]

\* Calls of nncf_compress_layer and passes of apply_nncf_to_module.
NextFrame ==
    \/ ApplyPass
    \/ \E n \in Nodes(mods) : CompressLayer(n)

SpecFrame == InitFrame /\ [][NextFrame]_vars

(***************************************************************************)
(* nncf_send_to_device: every child whose class name contains              *)
(* WeightsDecompressor gets its scale, and its zero_point if it has the    *)
(* attribute, moved; the recursion then descends into every child.  The    *)
(* decompressors of a layer are the children of its pre_ops container; a   *)
(* decompressor given child modules of its own carries them in a field     *)
(* `children`.                                                             *)
(***************************************************************************)
\* Lines 158-159 alone: the scale is moved, the zero_point is not.
send_scale_only(child, device) ==
    IF "WeightsDecompressor" \notin Range(child.cls) THEN child
    ELSE [child EXCEPT !.scale = ToDevice(@, device)]

\* Lines 158-161 for one child.
send_scale_and_zero_point(child, device) ==
    IF "WeightsDecompressor" \notin Range(child.cls) THEN child
    ELSE IF "isNone" \in DOMAIN child.zero_point          \* no such attribute
    THEN [child EXCEPT !.scale = ToDevice(@, device)]
    ELSE [child EXCEPT !.scale = ToDevice(@, device),
                       !.zero_point = ToDevice(@, device)]

RECURSIVE send_child(_, _)
\* Lines 157-162 on the children of a container or of a decompressor.
send_children(children, device) ==
    [i \in 1..Len(children) |-> send_child(children[i], device)]

\* Line 162 on a child that lines 158-161 have handled.
send_below(child, device) ==
    IF "children" \in DOMAIN child
    THEN [child EXCEPT !.children = send_children(@, device)]
    ELSE child

send_child(child, device) ==
    send_below(send_scale_and_zero_point(child, device), device)

RECURSIVE nncf_send_to_device(_, _, _)
RECURSIVE send_modules(_, _, _, _)

\* The loop over the child modules kids[i..] of a node of the graph.
send_modules(ms, kids, i, device) ==
    IF i > Len(kids) THEN ms
    ELSE send_modules(nncf_send_to_device(ms, kids[i], device), kids, i + 1, device)

\* nncf_send_to_device(model, device): the pre_ops container of model first
\* (it is registered by the module's constructor), then its child modules.
nncf_send_to_device(ms, model, device) ==
    send_modules([ms EXCEPT ![model].pre_ops = send_children(@, device)],
                 ChildrenOf(ms, model), 1, device)

\* A decompressor given a child module.
WithChild(d, inner) == [children |-> <<inner>>] @@ d

\* A layer whose decompressor holds a copy of itself as a child module.
NestDecompressor(layer) ==
    [layer EXCEPT !.pre_ops = <<WithChild(layer.pre_ops[1], layer.pre_ops[1])>>]

\* The modules of the graphs handed to nncf_send_to_device: a container, a
\* float layer still to be quantized, and a quantized layer whose
\* decompressor has a nested decompressor.
DeviceKind(k) ==
    CASE k = 0 -> Container
      [] k = 1 -> Module(<<"NNCF", "Linear">>, LoadedWeight(<<2, 2>>, <<-300, 100, 20, 20>>))
      [] OTHER -> NestDecompressor(nncf_compress_layer(Module(<<"NNCF", "Linear">>, LoadedWeight(<<2, 2>>, <<-300, 100, 20, 20>>)), 8, TRUE, DevicesDtype, FALSE, "none").layer)

InitDevice ==
    /\ \E k \in [0..(NumNodes - 1) -> 0..2] :
          k[0] = 0 /\ GraphStart([n \in 0..(NumNodes - 1) |-> DeviceKind(k[n])])
    \* one mode whose decompressor has a zero_point, one whose has none
    /\ \E wd \in {"int8", "int4_sym"} :
          qz = QuantizerFor(wd, ListOf(<<>>))
    \* offloading keeps the weights where they were loaded
    /\ env = [diffusers_offload_mode |-> "balanced", quant_conv |-> FALSE]

\* nncf_send_to_device(model, device) called on the root.
SendToDevice ==
    \E device \in {"cpu", DevicesDevice} :
        /\ mods' = nncf_send_to_device(mods, 0, device)
        /\ last' = [op |-> "send", device |-> device, before |-> mods]
        /\ UNCHANGED <<pk, config_vars, env, nops, orig, hist, load_vars>>

\* NNCFQuantizer._process_model_after_weight_loading
ProcessAfterWeightLoading ==
    /\ mods' = nncf_send_to_device(mods, 0, DevicesDevice)
    /\ last' = [op |-> "send", device |-> DevicesDevice, before |-> mods]
    /\ UNCHANGED <<pk, config_vars, env, nops, orig, hist, load_vars>>

NextDevice ==
    \/ ApplyPass
    \/ \E n \in Nodes(mods) : CreateQuantizedParam(n)
    \/ SendToDevice
    \/ ProcessAfterWeightLoading

SpecDevice == InitDevice /\ [][NextDevice]_vars

(***************************************************************************)
(* video_load.load_model.  A call is a sequence of steps between which     *)
(* another thread may run: the guard of lines 12-16, the unload of line    *)
(* 17, the two sub-model loads, the pipeline assembly, the option and      *)
(* hijack block of lines 73-88, and the assignment of loaded_model.  Each  *)
(* from_pretrained either returns an object or raises.                     *)
(***************************************************************************)
ModelNames == {"hunyuan", "wan"}

Callers == {1, 2}

MaxCalls == 3

Absent == [isNone |-> TRUE]

\* A models_def.Model, of which the loader reads the name.
Model(name) == [isNone |-> FALSE, name |-> name]

Selections == {Absent} \cup {Model(name) : name \in ModelNames}

\* A sub-model loaded with the quantization arguments of create_config.
SubModel(name, module) == [isNone |-> FALSE, name |-> name, module |-> module]

\* The pipeline object repo_cls.from_pretrained returns to call number id.
Pipeline(name, text_encoder, transformer, id) ==
    [isNone |-> FALSE, name |-> name, text_encoder |-> text_encoder,
     transformer |-> transformer, built_by |-> id, sd_checkpoint_info |-> Absent]

NotCalling == [pc |-> "idle"]

Returned(raised, val) == [pc |-> "idle", raised |-> raised, val |-> val]

\* sd_models.unload_model_weights(): no model is installed afterwards.
unload_model_weights(installed) == Absent

InitLoad ==
    /\ pk = PkIdle
    /\ cfgIn = CfgIdle
    /\ cfgOut = CfgIdle
    /\ qz = QzIdle
    /\ GraphUnused
    /\ loaded_model = Absent
    /\ sd_model = Absent
    /\ calls = [t \in Callers |-> NotCalling]
    /\ ncalls = 0

\* Lines 15-16: the guard on loaded_model.
is_loaded(selected) ==
    /\ ~loaded_model.isNone
    /\ loaded_model.name = selected.name

\* Lines 11-16: entry of load_model(selected) on thread t.
Enter(t) ==
    /\ calls[t].pc = "idle"
    /\ ncalls < MaxCalls
    /\ ncalls' = ncalls + 1
    /\ \E selected \in Selections :
          IF selected.isNone \/ is_loaded(selected)
          THEN calls' = [calls EXCEPT ![t] = Returned("none", "")]
          ELSE calls' = [calls EXCEPT ![t] =
                            [pc |-> "unload", selected |-> selected, id |-> ncalls + 1,
                             text_encoder |-> Absent, transformer |-> Absent]]
    /\ UNCHANGED <<pk, config_vars, graph_vars, loaded_model, sd_model>>

\* The same entry when no other call is in progress.
EnterAlone(t) ==
    /\ \A u \in Callers : calls[u].pc = "idle"
    /\ Enter(t)

\* Lines 17-20.
Unload(t) ==
    /\ calls[t].pc = "unload"
    /\ sd_model' = unload_model_weights(sd_model)
    /\ calls' = [calls EXCEPT ![t].pc = "text_encoder"]
    /\ UNCHANGED <<pk, config_vars, graph_vars, loaded_model, ncalls>>

\* Lines 23-36: the text encoder, None when loading it raised.
LoadTextEncoder(t) ==
    /\ calls[t].pc = "text_encoder"
    /\ \E raised \in BOOLEAN :
          calls' = [calls EXCEPT
                       ![t].text_encoder =
                           IF raised THEN Absent ELSE SubModel(calls[t].selected.name, "TE"),
                       ![t].pc = "transformer"]
    /\ UNCHANGED <<pk, config_vars, graph_vars, loaded_model, sd_model, ncalls>>

\* Lines 39-55: the transformer, None when loading it raised.
LoadTransformer(t) ==
    /\ calls[t].pc = "transformer"
    /\ \E raised \in BOOLEAN :
          calls' = [calls EXCEPT
                       ![t].transformer =
                           IF raised THEN Absent ELSE SubModel(calls[t].selected.name, "Video"),
                       ![t].pc = "pipeline"]
    /\ UNCHANGED <<pk, config_vars, graph_vars, loaded_model, sd_model, ncalls>>

\* Lines 58-70: shared.sd_model is assigned unless from_pretrained raised.
AssemblePipeline(t) ==
    /\ calls[t].pc = "pipeline"
    /\ \E raised \in BOOLEAN :
          sd_model' = IF raised THEN sd_model
                      ELSE Pipeline(calls[t].selected.name, calls[t].text_encoder,
                                    calls[t].transformer, calls[t].id)
    /\ calls' = [calls EXCEPT ![t].pc = "options"]
    /\ UNCHANGED <<pk, config_vars, graph_vars, loaded_model, ncalls>>

\* Lines 72-88: attributes of whatever shared.sd_model holds; on None the
\* attribute assignment of line 73 raises.
SetOptions(t) ==
    /\ calls[t].pc = "options"
    /\ IF sd_model.isNone
       THEN /\ calls' = [calls EXCEPT ![t] = Returned("AttributeError", "")]
            /\ UNCHANGED sd_model
       ELSE /\ sd_model' = [sd_model EXCEPT !.sd_checkpoint_info = calls[t].selected]
            /\ calls' = [calls EXCEPT ![t].pc = "loaded"]
    /\ UNCHANGED <<pk, config_vars, graph_vars, loaded_model, ncalls>>

\* Lines 89-92.
SetLoaded(t) ==
    /\ calls[t].pc = "loaded"
    /\ loaded_model' = [isNone |-> FALSE, name |-> calls[t].selected.name]
    /\ calls' = [calls EXCEPT ![t] = Returned("none", <<sd_model, calls[t].selected.name>>)]
    /\ UNCHANGED <<pk, config_vars, graph_vars, sd_model, ncalls>>

LoadStep(t) ==
    \/ Unload(t)
    \/ LoadTextEncoder(t)
    \/ LoadTransformer(t)
    \/ AssemblePipeline(t)
    \/ SetOptions(t)
    \/ SetLoaded(t)

\* load_model called from two threads.
NextLoad == \E t \in Callers : Enter(t) \/ LoadStep(t)

SpecLoad == InitLoad /\ [][NextLoad]_vars

\* load_model called again only after the previous call has returned.
NextLoadSeq == \E t \in Callers : EnterAlone(t) \/ LoadStep(t)

SpecLoadSeq == InitLoad /\ [][NextLoadSeq]_vars

(***************************************************************************)
(* Properties.                                                             *)
(***************************************************************************)
\* The class name without its NNCF prefix, and the topology it stands for.
BaseOf(cls) == IF StartsWithNNCF(cls) THEN Tail(cls) ELSE cls

Topology(cls) ==
    CASE BaseOf(cls) \in BaseLinear -> "linear"
      [] BaseOf(cls) \in BaseConv -> "convolution"
      [] BaseOf(cls) \in BaseConvTranspose -> "transposed-convolution"
      [] OTHER -> "other"

\* A layer whose weight storage is packed bytes with a decompressor attached.
IsQuantized(m) ==
    /\ m.weight.kind = "tensor"
    /\ Len(m.pre_ops) > 0
    /\ ~is_floating_point(m.weight.t)

\* The selection rule as the specification words it.
ClaimedSelected(n) ==
    /\ Topology(mods[n].cls) \in {"linear", "convolution", "transposed-convolution"}
    /\ orig[n].kind = "tensor"
    /\ PathOf(n) \notin Range(qz.modules_to_not_convert)
    /\ (Topology(mods[n].cls) \in {"convolution", "transposed-convolution"}
           => ~qz.quantization_config.is_asym_mode)

\* C1: after a first pass of apply_nncf_to_module from the root has completed,
\* a node is quantized if and only if its topology is linear, convolution or
\* transposed-convolution, it has a non-null weight, its path is not in the
\* deny-list, and (for the two convolution topologies) the mode is symmetric.
C1_QuantizedIffSelected ==
    (last.op = "apply" /\ last.raised = "none" /\ nops = 1) =>
        \A n \in Nodes(mods) : IsQuantized(mods[n]) <=> ClaimedSelected(n)

\* The packed weight a single quantization of node n's loaded weight gives.
PackedOfOriginal(n) ==
    nncf_compress_layer(Module(mods[n].cls, orig[n]),
                        qz.quantization_config.num_bits,
                        qz.quantization_config.is_asym_mode,
                        DevicesDtype, TRUE, env.diffusers_offload_mode).layer.weight.t

\* C2: after any sequence of quantization operations on the graph, every layer
\* has at most one decompressor attached, and the packed weight of a layer that
\* has one is the quantization of the float weight it was loaded with.
C2_QuantizedAtMostOnce ==
    \A n \in Nodes(mods) :
        /\ Len(mods[n].pre_ops) <= 1
        /\ Len(mods[n].pre_ops) = 1 =>
              /\ mods[n].weight.t.data = PackedOfOriginal(n).data
              /\ mods[n].weight.t.shape = PackedOfOriginal(n).shape

\* The dequantization of the packed weight node n's first quantization made.
DequantizedAtQuantization(n) ==
    forward(hist[n].first.d, [weight |-> hist[n].first.weight]).x.weight

\* C3: a forward call of a quantized layer does not fail, and the weight the
\* layer's computation receives is the dequantization of the packed weight
\* produced at quantization time, in the original shape and the result dtype.
C3_ForwardGivesDequantizedWeight ==
    (last.op = "forward" /\ Len(mods[last.node].pre_ops) >= 1) =>
        /\ last.raised = "none"
        /\ last.weight = DequantizedAtQuantization(last.node)
        /\ last.weight.shape = orig[last.node].t.shape
        /\ last.weight.dtype = qz.torch_dtype

\* The legal range of each variant.
LegalLow(variant) ==
    CASE variant = "INT8Asymmetric" -> 0
      [] variant = "INT8Symmetric"  -> -128
      [] variant = "INT4Asymmetric" -> 0
      [] variant = "INT4Symmetric"  -> -8

LegalHigh(variant) ==
    CASE variant = "INT8Asymmetric" -> 255
      [] variant = "INT8Symmetric"  -> 127
      [] variant = "INT4Asymmetric" -> 15
      [] variant = "INT4Symmetric"  -> 7

\* C4: pack_weight of any variant, given an integer tensor with a value outside
\* the variant's legal range, raises ValueError; no packed data comes back, so
\* nothing is there to unpack.
C4_OutOfRangeRaises ==
    (/\ pk.stage \in {"packed", "unpacked"}
     /\ AnyOutside(pk.input, LegalLow(pk.variant), LegalHigh(pk.variant)))
        => (pk.stage = "packed" /\ pk.result.raised = "ValueError")

\* C4 witness: the 4-bit signed pack_weight has refused a tensor holding -9.
C4_Witness ==
    /\ pk.stage = "packed"
    /\ pk.variant = "INT4Symmetric"
    /\ \E i \in 1..Len(pk.input.data) : pk.input.data[i] = -9
    /\ pk.result.raised = "ValueError"

\* The bias pack_int4 adds before packing.
NibbleBias(variant) == IF variant = "INT4Symmetric" THEN 8 ELSE 0

\* C5: a non-empty even-length tensor of values in the legal range is packed
\* without error; unpacking and reshaping gives back exactly the values packed;
\* and each 4-bit byte holds the first value of its pair (plus the bias) in the
\* low nibble and the second in the high nibble.
C5_PackUnpackIdentity ==
    /\ (/\ pk.stage \in {"packed", "unpacked"}
        /\ Len(pk.input.data) > 0
        /\ Len(pk.input.data) % 2 = 0
        /\ ~AnyOutside(pk.input, LegalLow(pk.variant), LegalHigh(pk.variant)))
           => /\ pk.result.raised = "none"
              /\ pk.variant \in {"INT4Asymmetric", "INT4Symmetric"} =>
                    \A k \in 1..(Len(pk.input.data) \div 2) :
                        /\ pk.result.val.data[k] % 16 =
                               pk.input.data[2 * k - 1] + NibbleBias(pk.variant)
                        /\ pk.result.val.data[k] \div 16 =
                               pk.input.data[2 * k] + NibbleBias(pk.variant)
    /\ pk.stage = "unpacked" =>
           /\ pk.output.data = pk.input.data
           /\ pk.output.shape = pk.input.shape

\* C5 witness: the pair (-8, 7) went through pack_int4 as the byte 15*16 + 0
\* and came back from unpack_int4.
C5_Witness ==
    /\ pk.stage = "unpacked"
    /\ pk.variant = "INT4Symmetric"
    /\ pk.input.data = <<-8, 7>>
    /\ pk.result.val.data = <<240>>
    /\ pk.output.data = <<-8, 7>>

\* Every element of the weight the last forward produced lies within half
\* the magnitude of its channel's scale of the loaded weight.
WithinHalfScale(n) ==
    \A i \in 1..Len(orig[n].t.data) :
        RatLe(RatAbs(RatSub(last.weight.data[i], orig[n].t.data[i])),
              RatDiv(RatAbs(Pick(hist[n].params.scale, i, orig[n].t.shape)),
                     RatOfInt(2)))

\* C6: a layer quantized once in symmetric mode decompresses to a weight whose
\* every element is within scale/2 of the loaded weight.
C6_SymmetricRoundTrip ==
    (/\ last.op = "forward"
     /\ last.raised = "none"
     /\ nops = 1
     /\ hist[last.node].nq = 1
     /\ ~hist[last.node].params.is_asym_mode)
        => WithinHalfScale(last.node)

\* C7: a layer quantized once in asymmetric mode decompresses to a weight whose
\* every element is within scale/2 of the loaded weight.
C7_AsymmetricRoundTrip ==
    (/\ last.op = "forward"
     /\ last.raised = "none"
     /\ nops = 1
     /\ hist[last.node].nq = 1
     /\ hist[last.node].params.is_asym_mode)
        => WithinHalfScale(last.node)

\* C8: the parameters nncf_compress_layer computed are well formed: no scale
\* entry is zero, none is smaller in magnitude than eps, and in asymmetric
\* mode every zero point is an integer of [0, 2^num_bits - 1].
C8_ParamsWellFormed ==
    \A n \in Nodes(mods) :
        hist[n].params.computed =>
            /\ \A j \in 1..Len(hist[n].params.scale.data) :
                  /\ hist[n].params.scale.data[j][1] # 0
                  /\ RatLe(Eps, RatAbs(hist[n].params.scale.data[j]))
            /\ hist[n].params.is_asym_mode =>
                  \A j \in 1..Len(hist[n].params.zero_point.data) :
                      hist[n].params.zero_point.data[j]
                          \in 0..(2 ^ hist[n].params.num_bits - 1)

\* C8 witness: a constant negative channel in 4-bit asymmetric mode: the scale
\* was floored to eps and the zero point clipped to 15.
C8_Witness ==
    /\ nops = 1
    /\ hist[1].params.computed
    /\ hist[1].params.is_asym_mode
    /\ hist[1].params.num_bits = 4
    /\ orig[1].t.data[1] = RatOfInt(-300)
    /\ hist[1].params.scale.data[1] = Eps
    /\ hist[1].params.zero_point.data[1] = 15

\* The reduction axes as the specification words them.
ClaimedAxes(cls, ndim) ==
    CASE Topology(cls) = "linear" -> AllAxesBut(ndim, ndim - 1)
      [] Topology(cls) = "convolution" -> AllAxesBut(ndim, 0)
      [] Topology(cls) = "transposed-convolution" -> AllAxesBut(ndim, 1)

\* C9: the scale of a quantized layer keeps the axes the topology rule leaves
\* unreduced: the last axis for linear, axis 0 for convolution, axis 1 for
\* transposed convolution; every other axis is reduced to size 1.
C9_ReductionAxesByTopology ==
    \A n \in Nodes(mods) :
        (nops = 1 /\ hist[n].params.computed) =>
            hist[n].params.scale.shape =
                KeepShape(orig[n].t.shape,
                          ClaimedAxes(mods[n].cls, Len(orig[n].t.shape)))

IsDecompressor(m) == "WeightsDecompressor" \in Range(m.cls)

HasZeroPoint(d) == "isNone" \notin DOMAIN d.zero_point

RECURSIVE AllLocatedOn(_, _)
\* Every decompressor among these modules and below them has its scale,
\* and its zero_point when it has one, on the device.
AllLocatedOn(children, device) ==
    \A i \in 1..Len(children) :
        /\ IsDecompressor(children[i]) =>
              /\ children[i].scale.device = device
              /\ HasZeroPoint(children[i]) => children[i].zero_point.device = device
        /\ "children" \in DOMAIN children[i] =>
              AllLocatedOn(children[i].children, device)

Elsewhere(t) == [t EXCEPT !.device = "elsewhere"]

RECURSIVE Unplaced(_)
\* The modules with the placement of the decompressors' scale and
\* zero_point forgotten.
Unplaced(children) ==
    [i \in 1..Len(children) |->
        LET d == children[i] IN
        [f \in DOMAIN d |->
            IF f = "scale" /\ IsDecompressor(d) THEN Elsewhere(d.scale)
            ELSE IF f = "zero_point" /\ IsDecompressor(d) /\ HasZeroPoint(d)
                 THEN Elsewhere(d.zero_point)
            ELSE IF f = "children" THEN Unplaced(d.children)
            ELSE d[f]]]

SentLast == last.op = "send"

\* C11: after nncf_send_to_device(model, device) every decompressor of the
\* graph, at any depth and also below another decompressor, has its scale
\* and (when it has one) its zero_point on device, and nothing else of any
\* node has changed: weights, classes and all other decompressor fields are
\* as before the call.
C11_DecompressorsOnDevice ==
    SentLast =>
        /\ DOMAIN mods = DOMAIN last.before
        /\ \A n \in DOMAIN mods :
              /\ AllLocatedOn(mods[n].pre_ops, last.device)
              /\ mods[n].weight = last.before[n].weight
              /\ mods[n].cls = last.before[n].cls
              /\ Unplaced(mods[n].pre_ops) = Unplaced(last.before[n].pre_ops)

\* C11 witness: a call moved the scale and the zero_point of a decompressor
\* nested under another decompressor of the layer at depth two, and the
\* scale of a decompressor without zero_point, while a weight stayed on a
\* different device.
C11_Witness ==
    /\ SentLast
    /\ \E n \in DOMAIN mods : \E i \in DOMAIN mods[n].pre_ops :
          /\ Parent(n) # 0
          /\ "children" \in DOMAIN mods[n].pre_ops[i]
          /\ HasZeroPoint(mods[n].pre_ops[i].children[1])
          /\ last.before[n].pre_ops[i].children[1].scale.device # last.device
          /\ last.before[n].pre_ops[i].children[1].zero_point.device # last.device
    /\ \E n \in DOMAIN mods : \E i \in DOMAIN mods[n].pre_ops :
          /\ ~HasZeroPoint(mods[n].pre_ops[i])
          /\ last.before[n].pre_ops[i].scale.device # last.device
          /\ mods[n].weight.t.device # last.device


(***************************************************************************)
(* C12, C15: the loader's guard variable.                                  *)
(***************************************************************************)
\* Unload, sub-model loading, pipeline assembly, update of loaded_model.
InLoadSequence(t) == calls[t].pc # "idle"

\* C12: under any interleaving of two concurrent load_model calls at most
\* one of them is inside the load sequence.
C12_AtMostOneInLoadSequence ==
    \A t \in DOMAIN calls : \A u \in DOMAIN calls :
        t # u => ~(InLoadSequence(t) /\ InLoadSequence(u))

NoCallInProgress ==
    /\ DOMAIN calls # {}
    /\ \A t \in DOMAIN calls : calls[t].pc = "idle"

\* C15: between load_model calls, whenever loaded_model names a model,
\* shared.sd_model is an installed pipeline built for that model.
C15_GuardMatchesPipeline ==
    (NoCallInProgress /\ ~loaded_model.isNone) =>
        /\ ~sd_model.isNone
        /\ sd_model.name = loaded_model.name


(***************************************************************************)
(* C13: a quantization that raises.                                        *)
(***************************************************************************)
Layers == {n \in Nodes(mods) \ {0} : mods[n].weight.kind = "tensor"}

\* No decompressor is attached and the weight holds the float values the
\* layer was loaded with.
LeftUnquantized(n) ==
    /\ Len(mods[n].pre_ops) = 0
    /\ mods[n].weight.kind = orig[n].kind
    /\ mods[n].weight.kind = "tensor" =>
          /\ is_floating_point(mods[n].weight.t)
          /\ mods[n].weight.t.data = orig[n].t.data
          /\ mods[n].weight.t.shape = orig[n].t.shape

LastRaised == last.op \in {"apply", "compress", "create"} /\ last.raised # "none"

\* C13: when quantizing a layer raises, the error leaves the operation (the
\* call on the layer, or the pass that made it) and the failing layer is
\* left un-quantized, without decompressor and with its original float
\* values; no layer ever holds packed bytes without a decompressor or a
\* decompressor without packed bytes.
C13_FailureLeavesLayerUnquantized ==
    /\ \A n \in Layers :
          Len(mods[n].pre_ops) > 0 <=> ~is_floating_point(mods[n].weight.t)
    /\ (LastRaised /\ last.op # "apply") => LeftUnquantized(last.node)
    /\ (LastRaised /\ last.op = "apply") => \E n \in Layers : LeftUnquantized(n)


(***************************************************************************)
(* C14: what a quantization leaves alone.                                  *)
(***************************************************************************)
\* The layers the claim names: a type outside the quantizable set, or a
\* convolution or transposed convolution when asymmetric mode is requested.
ClaimedLeftAlone(n) ==
    \/ Topology(mods[n].cls) = "other"
    \/ /\ Topology(mods[n].cls) \in {"convolution", "transposed-convolution"}
       /\ qz.quantization_config.is_asym_mode

\* The same weight values, dtype, device and shape.
SameWeight(a, b) ==
    /\ a.kind = b.kind
    /\ a.kind = "tensor" =>
          /\ a.requires_grad = b.requires_grad
          /\ a.t.dtype = b.t.dtype
          /\ a.t.device = b.t.device
          /\ a.t.shape = b.t.shape
          /\ a.t.data = b.t.data

\* The same layer with the same weight and the same hooks attached.
Untouched(a, b) ==
    /\ a.cls = b.cls
    /\ Len(a.pre_ops) = Len(b.pre_ops)
    /\ a.pre_ops = b.pre_ops
    /\ SameWeight(a.weight, b.weight)

\* A step that is a call of nncf_compress_layer or a pass of
\* apply_nncf_to_module.
QuantizationStep ==
    /\ nops' = nops + 1
    /\ last'.op \in {"apply", "compress"}

\* C14: a call of nncf_compress_layer on a layer whose type is not
\* quantizable, or on a convolution or transposed convolution in asymmetric
\* mode, returns the same layer without raising, and a pass leaves every
\* such layer and every layer it attaches no decompressor to while it runs
\* to completion as it was: weight values, dtype, device and hooks.  No
\* node is added, removed or changes its class or its place in the graph.
\* (Every quantization step changes nops, so the formula constrains them all.)
C14_UnquantizedLayersUnchanged ==
    [][QuantizationStep =>
          /\ DOMAIN mods' = DOMAIN mods
          /\ \A n \in DOMAIN mods :
                /\ mods'[n].cls = mods[n].cls
                /\ ChildrenOf(mods', n) = ChildrenOf(mods, n)
                /\ ClaimedLeftAlone(n) => Untouched(mods'[n], mods[n])
                /\ (last'.op = "compress" /\ last'.node = n /\ ClaimedLeftAlone(n))
                      => last'.raised = "none"
                /\ (last'.raised = "none" /\ Len(mods'[n].pre_ops) = Len(mods[n].pre_ops))
                      => Untouched(mods'[n], mods[n])]_nops

\* C14 witness: a pass in asymmetric mode with quant_conv set has quantized
\* a linear layer and left a convolution or a layer of another type, which
\* holds a weight, as it was loaded.
C14_Witness ==
    /\ last.op = "apply"
    /\ last.raised = "none"
    /\ qz.quantization_config.is_asym_mode
    /\ env.quant_conv
    /\ \E n \in Layers : IsQuantized(mods[n])
    /\ \E n \in Layers :
          /\ StartsWithNNCF(mods[n].cls)
          /\ ClaimedLeftAlone(n)
          /\ SameWeight(mods[n].weight, orig[n])
          /\ Len(mods[n].pre_ops) = 0

=============================================================================
